---- MODULE Spec2Model ----
(***************************************************************************)
(* Campaign launch and background bulk-send of campaign-pilot-launch.      *)
(*                                                                         *)
(*   sendCampaign            src/src/components/campaign/SendEmailsStep.tsx*)
(*   handler                 supabase function send-campaign-emails        *)
(*   sendEmailsInBackground  supabase function send-campaign-emails        *)
(*                                                                         *)
(* One Campaign record and its Recipient rows live in the external store.  *)
(* A launch r is one click on "Yes, Send Emails": the browser writes the   *)
(* status, invokes the handler, and the handler starts the detached        *)
(* dispatcher sendEmailsInBackground.  Every await of the code is one step *)
(* of the model, so that store writes of different parties interleave the  *)
(* way they can in the deployed functions.                                 *)
(***************************************************************************)
EXTENDS Integers, Sequences, FiniteSets, TLC

\* ---------------------------------------------------------------- bounds
MaxRows == 25          \* longest recipient list explored
ExhaustiveRows == 3    \* up to this many rows every failure pattern is explored
MaxLaunches == 2       \* launches of the one campaign the model has room for

\* ------------------------------------------------------ program constants
CheckpointEvery == 10

Null == "null"
Undefined == 0         \* recipient.id of an object that has no id; store ids are >= 1
Runs == 1..MaxLaunches

VARIABLES
  campaign,         \* the Campaign record in the store
  recipientsTable,  \* the rows of table recipients, in insertion order
  campaignData,     \* the wizard's payload: csvData (csvNull: it is null), smtpConfig
  token,            \* the bearer token of the request
  launchLimit,      \* how many launches this behaviour may perform
  cpc,              \* per launch: position of sendCampaign in the browser
  hpc,              \* per launch: position of the handler
  resp,             \* per launch: HTTP status the handler returned (0: none yet)
  dpc,              \* per launch: position of sendEmailsInBackground
  recipients,       \* per launch: the array the handler built and handed over
  idx,              \* per launch: position of the for-of loop (1-based)
  sentCount,        \* per launch: local counter
  failedCount,      \* per launch: local counter
  mailFails,        \* per launch: the positions at which send-email answers an error
  events,           \* per launch: what the dispatcher did, in the order it did it
  preLaunch,        \* per launch: store content when the launch button was confirmed
  finalApplied,     \* per launch: the store applied the dispatcher's final write
  storeError,       \* per launch: a store write of the handler returned an error
  writeError,       \* per launch: a store write of the dispatcher returned an error
  template,         \* rendering: subject and body of the template, as characters
  placeholderMappings, \* rendering: the mapping's entries, in insertion order
  recipientData,    \* rendering: the CSV row of one recipient, column -> value
  emailData,        \* rendering: subject and html handed to send-email
  preview,          \* rendering: subject and body PreviewStep shows for the row
  rendered,         \* rendering: which of emailData and preview have been computed
  tpc,              \* test send: position of the send-test-email handler
  tresp,            \* test send: HTTP status it returned (0: none yet)
  tcalls,           \* test send: invocations of send-email in this request
  tlookup,          \* test send: outcome of the template lookup
  tmail,            \* test send: outcome of the send-email invocation
  testRequest,      \* test send: the request's smtpConfig
  preTest,          \* test send: store content when the request arrived
  currentStep,      \* wizard: the step CampaignBuilder shows
  wizardData,       \* wizard: CampaignBuilder's campaignData state
  uploadStep,       \* wizard: CSVUploadStep's placeholders, mappings and csvData
  email_templates,  \* wizard: the campaign's row of table email_templates
  placeholder_mappings, \* wizard: the placeholders mapped in table placeholder_mappings
  csv_url,          \* wizard: the campaign's csv_url
  invocations       \* wizard: what each invocation of send-campaign-emails was made with

launchVars == <<campaign, recipientsTable, campaignData, token, launchLimit, cpc,
                hpc, resp, dpc, recipients, idx, sentCount, failedCount,
                mailFails, events, preLaunch, finalApplied, storeError,
                writeError>>
renderVars == <<template, placeholderMappings, recipientData, emailData, preview,
                rendered>>
testVars == <<tpc, tresp, tcalls, tlookup, tmail, testRequest, preTest>>
wizardVars == <<currentStep, wizardData, uploadStep, email_templates,
                placeholder_mappings, csv_url, invocations>>
vars == <<launchVars, renderVars, testVars, wizardVars>>

\* ------------------------------------------------------------ store model
\* campaigns row as createNewCampaign leaves it: status draft, nothing counted
NewCampaign ==
  [status |-> "draft", total_recipients |-> 0, sent_count |-> 0,
   failed_count |-> 0, completed_at |-> Null]

\* supabase.from('campaigns').update(fields).eq('id', campaignId): the given
\* columns are overwritten, the others keep their value (last write wins)
UpdateCampaign(c, fields) ==
  [f \in DOMAIN c |-> IF f \in DOMAIN fields THEN fields[f] ELSE c[f]]

\* supabase.from('recipients').update({status}).eq('id', id): only rows whose
\* id equals the filter value change
UpdateRecipient(table, id, status) ==
  [i \in DOMAIN table |->
     IF table[i].id = id THEN [table[i] EXCEPT !.status = status] ELSE table[i]]

\* supabase.from('recipients').insert(recipients): the store assigns the ids
InsertRecipients(table, recs, r) ==
  table \o [i \in 1..Len(recs) |->
              [id |-> Len(table) + i, launch |-> r, email |-> recs[i].email,
               status |-> recs[i].status]]


\* ----------------------------------------------------------- sendCampaign
\* the launches of one wizard are sequential: the confirm button is disabled
\* while loading, so launch r+1 begins only after sendCampaign r has finished
MayLaunch(r) ==
  /\ r <= launchLimit
  /\ cpc[r] = "idle"
  /\ IF r = 1 THEN TRUE ELSE cpc[r - 1] = "done"

\* sendCampaign, first await: supabase.from('campaigns').update({status:'active'})
\* if (campaignError) throw campaignError -> toast, finally
ClientUpdateStatus(r) ==
  /\ MayLaunch(r)
  /\ preLaunch' = [preLaunch EXCEPT ![r] =
                     [campaign |-> campaign, rows |-> Len(recipientsTable)]]
  /\ \E ok \in BOOLEAN :
       /\ campaign' = IF ok THEN UpdateCampaign(campaign, [status |-> "active"])
                            ELSE campaign
       /\ cpc' = [cpc EXCEPT ![r] = IF ok THEN "invoke" ELSE "done"]
  /\ UNCHANGED <<wizardVars, renderVars, testVars, writeError,
                 recipientsTable, campaignData, token, launchLimit, hpc, resp,
                 dpc, recipients, idx, sentCount, failedCount, mailFails,
                 events, finalApplied, storeError>>

\* sendCampaign, second await: supabase.functions.invoke('send-campaign-emails')
ClientInvoke(r) ==
  /\ cpc[r] = "invoke"
  /\ cpc' = [cpc EXCEPT ![r] = "await"]
  /\ hpc' = [hpc EXCEPT ![r] = "called"]
  /\ UNCHANGED <<wizardVars, renderVars, testVars, writeError,
                 campaign, recipientsTable, campaignData, token, launchLimit,
                 resp, dpc, recipients, idx, sentCount, failedCount, mailFails,
                 events, preLaunch, finalApplied, storeError>>

\* the invoke resolves: toast and onNext on success, error toast otherwise;
\* setLoading(false) in both cases
ClientReturn(r) ==
  /\ cpc[r] = "await"
  /\ hpc[r] = "returned"
  /\ cpc' = [cpc EXCEPT ![r] = "done"]
  /\ UNCHANGED <<wizardVars, renderVars, testVars, writeError,
                 campaign, recipientsTable, campaignData, token, launchLimit,
                 hpc, resp, dpc, recipients, idx, sentCount, failedCount,
                 mailFails, events, preLaunch, finalApplied, storeError>>

\* ---------------------------------------------------------------- handler
\* the catch block of the handler: every throw becomes an HTTP 500
Throw(r) ==
  /\ hpc' = [hpc EXCEPT ![r] = "returned"]
  /\ resp' = [resp EXCEPT ![r] = 500]

\* if (!token) throw ...; getUser(token): if (authError || !user) throw ...
AuthAccepts(tok) == tok = "valid"

\* csvData.map(row => ({campaign_id, user_id, email, status:'pending', data: row})):
\* the objects carry no id, the store assigns ids only to its own rows
BuildRecipients(csvData) ==
  [i \in 1..Len(csvData) |->
     [id |-> Undefined, email |-> csvData[i], status |-> "pending"]]

\* the fields of the handler's campaign update
LaunchFields(n) ==
  [status |-> "active", total_recipients |-> n, sent_count |-> 0, failed_count |-> 0]

\* if (recipientsError) throw new Error('Failed to insert recipients')
InsertErrorThrows(ok) == ~ok

\* variant: the result of the campaign update is not checked
UpdateErrorIgnored(ok) == FALSE

\* if (campaignUpdateError) throw new Error('Failed to update campaign')
UpdateErrorThrows(ok) == ~ok

HandlerAuth(r) ==
  /\ hpc[r] = "called"
  /\ IF AuthAccepts(token)
       THEN /\ hpc' = [hpc EXCEPT ![r] = "insert"]
            /\ UNCHANGED resp
       ELSE Throw(r)
  /\ UNCHANGED <<wizardVars, renderVars, testVars, writeError,
                 campaign, recipientsTable, campaignData, token, launchLimit,
                 cpc, dpc, recipients, idx, sentCount, failedCount, mailFails,
                 events, preLaunch, finalApplied, storeError>>

\* csvData.map throws a TypeError when csvData is null
HandlerInsert(r) ==
  /\ hpc[r] = "insert"
  /\ IF campaignData.csvNull
       THEN /\ Throw(r)
            /\ UNCHANGED <<recipientsTable, recipients, storeError>>
       ELSE \E ok \in BOOLEAN :
              /\ recipients' = [recipients EXCEPT
                                  ![r] = BuildRecipients(campaignData.csvData)]
              /\ recipientsTable' =
                   IF ok THEN InsertRecipients(recipientsTable, recipients'[r], r)
                         ELSE recipientsTable
              /\ storeError' = [storeError EXCEPT ![r] = ~ok]
              /\ IF InsertErrorThrows(ok)
                   THEN Throw(r)
                   ELSE /\ hpc' = [hpc EXCEPT ![r] = "update"]
                        /\ UNCHANGED resp
  /\ UNCHANGED <<wizardVars, renderVars, testVars, writeError,
                 campaign, campaignData, token, launchLimit, cpc, dpc, idx,
                 sentCount, failedCount, mailFails, events, preLaunch,
                 finalApplied>>

HandlerUpdate(r) ==
  /\ hpc[r] = "update"
  /\ \E ok \in BOOLEAN :
       /\ campaign' =
            IF ok THEN UpdateCampaign(campaign, LaunchFields(Len(campaignData.csvData)))
                  ELSE campaign
       /\ storeError' = [storeError EXCEPT ![r] = ~ok]
       /\ IF UpdateErrorThrows(ok)
            THEN Throw(r)
            ELSE /\ hpc' = [hpc EXCEPT ![r] = "start"]
                 /\ UNCHANGED resp
  /\ UNCHANGED <<wizardVars, renderVars, testVars, writeError,
                 recipientsTable, campaignData, token, launchLimit, cpc, dpc,
                 recipients, idx, sentCount, failedCount, mailFails, events,
                 preLaunch, finalApplied>>

\* the behaviours of the mail sender explored for a list of n rows: which
\* positions answer an error.  Every pattern for short lists; for long lists
\* none, all, exactly one, every even and every odd position
FailurePatterns(n) ==
  IF n <= ExhaustiveRows
    THEN SUBSET (1..n)
    ELSE {{}, 1..n, {k \in 1..n : k % 2 = 0}, {k \in 1..n : k % 2 = 1}}
           \cup {{k} : k \in 1..n}

\* EdgeRuntime.waitUntil(sendEmailsInBackground(...)); return new Response(.., 200)
HandlerStart(r) ==
  /\ hpc[r] = "start"
  /\ hpc' = [hpc EXCEPT ![r] = "returned"]
  /\ resp' = [resp EXCEPT ![r] = 200]
  /\ dpc' = [dpc EXCEPT ![r] = "loop"]
  /\ idx' = [idx EXCEPT ![r] = 1]
  /\ sentCount' = [sentCount EXCEPT ![r] = 0]
  /\ failedCount' = [failedCount EXCEPT ![r] = 0]
  /\ \E fails \in FailurePatterns(Len(recipients[r])) :
       mailFails' = [mailFails EXCEPT ![r] = fails]
  /\ UNCHANGED <<wizardVars, renderVars, testVars, writeError,
                 campaign, recipientsTable, campaignData, token, launchLimit,
                 cpc, recipients, events, preLaunch, finalApplied, storeError>>


\* ------------------------------------------------- sendEmailsInBackground
Ev(type, k, status, sent, failed) ==
  [type |-> type, k |-> k, to |-> 0, status |-> status, sent |-> sent,
   failed |-> failed]

Log(r, e) == events' = [events EXCEPT ![r] = Append(@, e)]

\* variant: a caught send error leaves the loop
NextIndexBreakOnFailure(i, n, ok) == IF ok THEN i + 1 ELSE n + 1

\* variant: the loop steps over every other element
NextIndexSkipping(i, n, ok) == i + 2

\* variant: a position whose attempt failed is attempted again
NextIndexRetryOnFailure(i, n, ok) == IF ok THEN i + 1 ELSE i

\* the for-of loop: the element after position i, whether or not the attempt at
\* i was caught by the catch block (n is recipients.length)
NextIndex(i, n, ok) == i + 1

\* variant: only successful sends count towards the progress update
ShouldCheckpointSentOnly(sc, fc) == sc % CheckpointEvery = 0

\* if ((sentCount + failedCount) % 10 === 0)
ShouldCheckpoint(sc, fc) == (sc + fc) % CheckpointEvery = 0

\* variant: the number of processed recipients is written as failed_count
ProgressFieldsProcessed(sc, fc) == [sent_count |-> sc, failed_count |-> sc + fc]

\* the fields of the progress update every 10 emails
ProgressFields(sc, fc) == [sent_count |-> sc, failed_count |-> fc]

\* variant: only a run without failures counts as completed
IsCompletedAllSent(sc, fc, n) == sc = n

\* const isCompleted = sentCount + failedCount === recipients.length
IsCompleted(sc, fc, n) == sc + fc = n

\* variant: the final update also rewrites total_recipients
FinalFieldsWithTotal(sc, fc, n) ==
  [status |-> IF IsCompleted(sc, fc, n) THEN "completed" ELSE "paused",
   sent_count |-> sc, failed_count |-> fc, total_recipients |-> sc,
   completed_at |-> IF IsCompleted(sc, fc, n) THEN "timestamp" ELSE Null]

\* the fields of the final campaign update
FinalFields(sc, fc, n) ==
  [status |-> IF IsCompleted(sc, fc, n) THEN "completed" ELSE "paused",
   sent_count |-> sc, failed_count |-> fc,
   completed_at |-> IF IsCompleted(sc, fc, n) THEN "timestamp" ELSE Null]

\* variant: the catch block rethrows and the function ends without a final write
AfterMarkRethrow(ok) == IF ok THEN "delay" ELSE "aborted"

\* the statement after a 'sent' recipient update: the 1000 ms wait; the catch
\* block has no wait and falls through to the progress check
AfterMark(ok) == IF ok THEN "delay" ELSE "progress"

\* supabase.functions.invoke('send-email', {body: emailData}) for the element at
\* idx; if (emailError) throw emailError
InvokeMail(r) ==
  /\ dpc[r] = "loop"
  /\ idx[r] <= Len(recipients[r])
  /\ Log(r, [Ev("mail", idx[r], "", sentCount[r], failedCount[r])
               EXCEPT !.to = recipients[r][idx[r]].email])
  /\ dpc' = [dpc EXCEPT ![r] = IF idx[r] \in mailFails[r] THEN "markFailed"
                                                          ELSE "markSent"]
  /\ UNCHANGED <<wizardVars, renderVars, testVars, writeError,
                 campaign, recipientsTable, campaignData, token, launchLimit,
                 cpc, hpc, resp, recipients, idx, sentCount, failedCount,
                 mailFails, preLaunch, finalApplied, storeError>>

\* variant: a failed recipient update throws inside the try block
WriteErrorRethrown(ok) == ~ok

\* the dispatcher awaits its store writes without reading the {error} they
\* return, and supabase-js does not throw: a failed write never raises
WriteErrorThrows(ok) == FALSE

\* await recipients.update({status:'sent', sent_at}).eq('id', recipient.id);
\* sentCount++ (a throw in the try block would enter the catch block instead)
MarkSent(r) ==
  /\ dpc[r] = "markSent"
  /\ \E ok \in BOOLEAN :
       /\ recipientsTable' =
            IF ok THEN UpdateRecipient(recipientsTable, recipients[r][idx[r]].id, "sent")
                  ELSE recipientsTable
       /\ writeError' = [writeError EXCEPT ![r] = @ \/ ~ok]
       /\ IF WriteErrorThrows(ok)
            THEN /\ dpc' = [dpc EXCEPT ![r] = "markFailed"]
                 /\ UNCHANGED <<sentCount, events>>
            ELSE /\ sentCount' = [sentCount EXCEPT ![r] = @ + 1]
                 /\ Log(r, Ev("recipient", idx[r], "sent", sentCount'[r], failedCount[r]))
                 /\ dpc' = [dpc EXCEPT ![r] = AfterMark(TRUE)]
  /\ UNCHANGED <<wizardVars, renderVars, testVars,
                 campaign, campaignData, token, launchLimit, cpc, hpc, resp,
                 recipients, idx, failedCount, mailFails, preLaunch,
                 finalApplied, storeError>>

\* catch: await recipients.update({status:'failed', error_message}).eq('id',
\* recipient.id); failedCount++
MarkFailed(r) ==
  /\ dpc[r] = "markFailed"
  /\ \E ok \in BOOLEAN :
       /\ recipientsTable' =
            IF ok THEN UpdateRecipient(recipientsTable, recipients[r][idx[r]].id, "failed")
                  ELSE recipientsTable
       /\ writeError' = [writeError EXCEPT ![r] = @ \/ ~ok]
  /\ failedCount' = [failedCount EXCEPT ![r] = @ + 1]
  /\ Log(r, Ev("recipient", idx[r], "failed", sentCount[r], failedCount'[r]))
  /\ dpc' = [dpc EXCEPT ![r] = AfterMark(FALSE)]
  /\ UNCHANGED <<wizardVars, renderVars, testVars,
                 campaign, campaignData, token, launchLimit, cpc, hpc, resp,
                 recipients, idx, sentCount, mailFails, preLaunch, finalApplied,
                 storeError>>

\* await new Promise(resolve => setTimeout(resolve, 1000))
Delay(r) ==
  /\ dpc[r] = "delay"
  /\ Log(r, Ev("delay", idx[r], "", sentCount[r], failedCount[r]))
  /\ dpc' = [dpc EXCEPT ![r] = "progress"]
  /\ UNCHANGED <<wizardVars, renderVars, testVars, writeError,
                 campaign, recipientsTable, campaignData, token, launchLimit,
                 cpc, hpc, resp, recipients, idx, sentCount, failedCount,
                 mailFails, preLaunch, finalApplied, storeError>>

\* the progress update is due: await campaigns.update({sent_count, failed_count});
\* the returned error is not looked at; then the next element
ProgressWrite(r) ==
  /\ dpc[r] = "progress"
  /\ ShouldCheckpoint(sentCount[r], failedCount[r])
  /\ \E ok \in BOOLEAN :
       /\ campaign' =
            IF ok THEN UpdateCampaign(campaign, ProgressFields(sentCount[r], failedCount[r]))
                  ELSE campaign
       /\ writeError' = [writeError EXCEPT ![r] = @ \/ ~ok]
  /\ Log(r, Ev("checkpoint", idx[r], "", ProgressFields(sentCount[r], failedCount[r]).sent_count,
               ProgressFields(sentCount[r], failedCount[r]).failed_count))
  /\ idx' = [idx EXCEPT ![r] = NextIndex(@, Len(recipients[r]), idx[r] \notin mailFails[r])]
  /\ dpc' = [dpc EXCEPT ![r] = "loop"]
  /\ UNCHANGED <<wizardVars, renderVars, testVars,
                 recipientsTable, campaignData, token, launchLimit, cpc, hpc,
                 resp, recipients, sentCount, failedCount, mailFails, preLaunch,
                 finalApplied, storeError>>

\* the progress update is not due: straight to the next element
ProgressSkip(r) ==
  /\ dpc[r] = "progress"
  /\ ~ShouldCheckpoint(sentCount[r], failedCount[r])
  /\ idx' = [idx EXCEPT ![r] = NextIndex(@, Len(recipients[r]), idx[r] \notin mailFails[r])]
  /\ dpc' = [dpc EXCEPT ![r] = "loop"]
  /\ UNCHANGED <<wizardVars, renderVars, testVars, writeError,
                 campaign, recipientsTable, campaignData, token, launchLimit,
                 cpc, hpc, resp, recipients, sentCount, failedCount, mailFails,
                 events, preLaunch, finalApplied, storeError>>

\* after the loop: await campaigns.update({status, sent_count, failed_count,
\* completed_at}); the returned error is not looked at
FinalWrite(r) ==
  /\ dpc[r] = "loop"
  /\ idx[r] > Len(recipients[r])
  /\ \E ok \in BOOLEAN :
       /\ campaign' =
            IF ok THEN UpdateCampaign(campaign,
                         FinalFields(sentCount[r], failedCount[r], Len(recipients[r])))
                  ELSE campaign
       /\ finalApplied' = [finalApplied EXCEPT ![r] = ok]
  /\ Log(r, Ev("final", idx[r],
               FinalFields(sentCount[r], failedCount[r], Len(recipients[r])).status,
               FinalFields(sentCount[r], failedCount[r], Len(recipients[r])).sent_count,
               FinalFields(sentCount[r], failedCount[r], Len(recipients[r])).failed_count))
  /\ dpc' = [dpc EXCEPT ![r] = "done"]
  /\ UNCHANGED <<wizardVars, renderVars, testVars, writeError,
                 recipientsTable, campaignData, token, launchLimit, cpc, hpc,
                 resp, recipients, idx, sentCount, failedCount, mailFails,
                 preLaunch, storeError>>

Running(r) == dpc[r] \in {"loop", "markSent", "markFailed", "delay", "progress"}

\* the edge runtime ends the worker while the detached promise is pending
\* (wall-clock limit, redeploy, crash): no statement of the run executes any more
Terminate(r) ==
  /\ Running(r)
  /\ dpc' = [dpc EXCEPT ![r] = "terminated"]
  /\ UNCHANGED <<wizardVars, renderVars, testVars, writeError,
                 campaign, recipientsTable, campaignData, token, launchLimit,
                 cpc, hpc, resp, recipients, idx, sentCount, failedCount,
                 mailFails, events, preLaunch, finalApplied, storeError>>

\* ------------------------------------------------- placeholder rendering
\* Texts are sequences of one-character strings.
MaxSegments == 2       \* pieces a subject is put together from

TokA == <<"{", "{", "a", "}", "}">>
TokB == <<"{", "{", "b", "}", "}">>
Tokens == {TokA, TokB}
Segments == {TokA, TokB, <<"x">>, <<"{">>}
Columns == {"c1", "c2"}
Values == {<<>>, <<"v">>, TokB, <<"$", "&">>}

RECURSIVE TextsUpTo(_)
TextsUpTo(n) ==
  IF n = 0 THEN {<<>>}
  ELSE TextsUpTo(n - 1) \cup {t \o g : t \in TextsUpTo(n - 1), g \in Segments}

\* new RegExp(placeholder.replace(/[.*+?^${}()|[\]\\]/g, '\\$&'), 'g') matches
\* the placeholder's characters literally: does it match s at position i
MatchAt(s, i, p) ==
  /\ i + Len(p) - 1 <= Len(s)
  /\ \A j \in 1..Len(p) : s[i + j - 1] = p[j]

\* String.prototype.replace reads its replacement string as a pattern: $$ is a
\* dollar sign and $& the matched text; a dollar sign before any other character
\* of the values' alphabet stands for itself (the regular expression has no
\* groups). k is the position in repl, p the matched text.
RECURSIVE GetSubstitution(_, _, _)
GetSubstitution(repl, k, p) ==
  IF k > Len(repl) THEN <<>>
  ELSE IF repl[k] = "$" /\ k < Len(repl) /\ repl[k + 1] \in {"$", "&"}
    THEN (IF repl[k + 1] = "$" THEN <<"$">> ELSE p)
         \o GetSubstitution(repl, k + 2, p)
    ELSE <<repl[k]>> \o GetSubstitution(repl, k + 1, p)

\* text.replace(regex, value) with the 'g' flag: every match from left to right,
\* the search resuming behind each match
RECURSIVE ReplaceFrom(_, _, _, _)
ReplaceFrom(s, i, p, repl) ==
  IF i > Len(s) THEN <<>>
  ELSE IF MatchAt(s, i, p)
    THEN GetSubstitution(repl, 1, p) \o ReplaceFrom(s, i + Len(p), p, repl)
    ELSE <<s[i]>> \o ReplaceFrom(s, i + 1, p, repl)

ReplaceAll(s, p, repl) == ReplaceFrom(s, 1, p, repl)

\* recipient.data[csvColumn]: undefined when the row has no such column
HasValue(data, csvColumn) == csvColumn \in DOMAIN data /\ data[csvColumn] # <<>>

\* const value = recipient.data[csvColumn] || ''
ValueOr(data, csvColumn) == IF HasValue(data, csvColumn) THEN data[csvColumn] ELSE <<>>

\* Object.entries(placeholderMappings).forEach(([placeholder, csvColumn]) => ..):
\* one replace per entry, in insertion order, each on the result of the one before
RECURSIVE Personalize(_, _, _)
Personalize(text, mappings, data) ==
  IF mappings = <<>> THEN text
  ELSE Personalize(ReplaceAll(text, Head(mappings).placeholder,
                              ValueOr(data, Head(mappings).csvColumn)),
                   Tail(mappings), data)

\* /\{\{([^}]+)\}\}/ at position i: two opening braces, one or more characters
\* other than a closing brace, two closing braces; the end of the match, or 0
RECURSIVE RunEnd(_, _)
RunEnd(s, j) == IF j <= Len(s) /\ s[j] # "}" THEN RunEnd(s, j + 1) ELSE j

PlaceholderEnd(s, i) ==
  IF /\ i + 1 <= Len(s)
     /\ s[i] = "{"
     /\ s[i + 1] = "{"
     /\ RunEnd(s, i + 2) > i + 2
     /\ RunEnd(s, i + 2) + 1 <= Len(s)
     /\ s[RunEnd(s, i + 2)] = "}"
     /\ s[RunEnd(s, i + 2) + 1] = "}"
    THEN RunEnd(s, i + 2) + 1
    ELSE 0

\* text.match(placeholderRegex) || []: the matches from left to right
RECURSIVE MatchesFrom(_, _)
MatchesFrom(s, i) ==
  IF i > Len(s) THEN <<>>
  ELSE IF PlaceholderEnd(s, i) > 0
    THEN <<SubSeq(s, i, PlaceholderEnd(s, i))>> \o MatchesFrom(s, PlaceholderEnd(s, i) + 1)
    ELSE MatchesFrom(s, i + 1)

\* [...new Set(matches)]: first occurrences, in order
RECURSIVE Unique(_)
Unique(seq) ==
  IF seq = <<>> THEN <<>>
  ELSE LET init == Unique(SubSeq(seq, 1, Len(seq) - 1))
           last == seq[Len(seq)]
       IN IF \E k \in 1..Len(init) : init[k] = last THEN init ELSE Append(init, last)

\* the template's placeholders as EmailTemplateStep derives and saves them
Placeholders(subject, body) == Unique(MatchesFrom(subject \o <<" ">> \o body, 1))

\* campaignData.placeholderMappings[placeholder]: the mapped column, or none
MappedHeader(mappings, placeholder) ==
  IF \E k \in 1..Len(mappings) : mappings[k].placeholder = placeholder
    THEN (CHOOSE e \in {mappings[k] : k \in 1..Len(mappings)} :
            e.placeholder = placeholder).csvColumn
    ELSE Null

\* generatePreview: placeholders.forEach(placeholder => { if (mappedHeader &&
\* randomRow[mappedHeader]) text = text.replace(regex, randomRow[mappedHeader]) })
RECURSIVE PreviewText(_, _, _, _)
PreviewText(text, placeholders, mappings, randomRow) ==
  IF placeholders = <<>> THEN text
  ELSE LET mappedHeader == MappedHeader(mappings, Head(placeholders))
       IN PreviewText(
            IF mappedHeader # Null /\ HasValue(randomRow, mappedHeader)
              THEN ReplaceAll(text, Head(placeholders), randomRow[mappedHeader])
              ELSE text,
            Tail(placeholders), mappings, randomRow)

\* sendEmailsInBackground, for one recipient: personalizedSubject and
\* personalizedBody become emailData.subject and emailData.html
RenderEmail ==
  /\ "email" \notin rendered
  /\ emailData' = [subject |-> Personalize(template.subject, placeholderMappings, recipientData),
                   html |-> Personalize(template.body, placeholderMappings, recipientData)]
  /\ rendered' = rendered \cup {"email"}
  /\ UNCHANGED <<launchVars, wizardVars, testVars, template, placeholderMappings,
                 recipientData, preview>>

\* PreviewStep.generatePreview with the row as randomRow
GeneratePreview ==
  /\ "preview" \notin rendered
  /\ preview' =
       [subject |-> PreviewText(template.subject,
                                Placeholders(template.subject, template.body),
                                placeholderMappings, recipientData),
        body |-> PreviewText(template.body,
                             Placeholders(template.subject, template.body),
                             placeholderMappings, recipientData)]
  /\ rendered' = rendered \cup {"preview"}
  /\ UNCHANGED <<launchVars, wizardVars, testVars, template, placeholderMappings,
                 recipientData, emailData>>

\* ------------------------------------------------------------ test send
\* the body of a request: SMTPConfigStep.sendTestEmail always sends an smtpConfig
\* object; the endpoint takes whatever JSON a caller posts
TestRequests == [smtpConfig : {Null, "configured"}]

\* a POST request reaches the handler: const {campaignId, testEmail, smtpConfig}
\* = await req.json()
TestRequest ==
  /\ tpc \in {"idle", "returned"}
  /\ testRequest' \in TestRequests
  /\ preTest' = [campaign |-> campaign, rows |-> recipientsTable]
  /\ tpc' = "lookup"
  /\ tresp' = 0
  /\ tcalls' = 0
  /\ tlookup' = "none"
  /\ tmail' = "none"
  /\ UNCHANGED <<launchVars, wizardVars, renderVars>>

\* if (templateError) throw new Error('Failed to fetch template')
TemplateErrorThrows(ok) == ~ok

\* supabase.from('templates').select('*').eq('campaign_id', campaignId).single()
TestLookup ==
  /\ tpc = "lookup"
  /\ \E ok \in BOOLEAN :
       /\ tlookup' = IF ok THEN "ok" ELSE "error"
       /\ IF TemplateErrorThrows(ok)
            THEN tpc' = "returned" /\ tresp' = 500
            ELSE tpc' = "build" /\ UNCHANGED tresp
  /\ UNCHANGED <<launchVars, wizardVars, renderVars, tcalls, tmail, testRequest, preTest>>

\* const emailData = {.. ${smtpConfig.senderName} ..}: reading a property of a
\* missing smtpConfig throws a TypeError, which the catch block answers with 500
TestBuild ==
  /\ tpc = "build"
  /\ IF testRequest.smtpConfig = Null
       THEN tpc' = "returned" /\ tresp' = 500
       ELSE tpc' = "send" /\ UNCHANGED tresp
  /\ UNCHANGED <<launchVars, wizardVars, renderVars, tcalls, tlookup, tmail, testRequest, preTest>>

\* variant: the error send-email returns is not looked at
TestEmailErrorIgnored(ok) == FALSE

\* if (emailError) throw emailError
TestEmailErrorThrows(ok) == ~ok

\* supabase.functions.invoke('send-email', {body: emailData}); then the 200
\* response, or the catch block's 500
TestSend ==
  /\ tpc = "send"
  /\ tcalls' = tcalls + 1
  /\ \E ok \in BOOLEAN :
       /\ tmail' = IF ok THEN "ok" ELSE "error"
       /\ tresp' = IF TestEmailErrorThrows(ok) THEN 500 ELSE 200
  /\ tpc' = "returned"
  /\ UNCHANGED <<launchVars, wizardVars, renderVars, tlookup, testRequest, preTest>>

\* -------------------------------------------------------------- wizard
MaxInvocations == 2    \* invocations of the launch function in one behaviour

\* steps: 1 Email Template, 2 Upload CSV, 3 SMTP Config, 4 Preview,
\* 5 Send Emails, 6 Logs
Steps == 1..6

\* useState({template: null, csvData: null, csvHeaders: [],
\*           placeholderMappings: {}, smtpConfig: null});
\* placeholderMappings is kept as the set of placeholders that have a header
NewWizardData ==
  [template |-> [isNull |-> TRUE, placeholders |-> {}],
   csvData |-> [isNull |-> TRUE, rows |-> 0],
   placeholderMappings |-> {},
   smtpConfig |-> Null]

\* useState([]) for csvData and placeholders, useState({}) for mappings
NewUploadStep == [placeholders |-> {}, mappings |-> {}, csvData |-> 0]

\* loadExistingData, run when CSVUploadStep mounts: the saved template's
\* placeholders, the saved mappings and the stored CSV file (of one row)
LoadExistingData(tpl, maps, url) ==
  [placeholders |-> IF tpl.exists THEN tpl.placeholders ELSE {},
   mappings |-> maps,
   csvData |-> IF url = Null THEN 0 ELSE 1]

\* the step component of the switch is unmounted when another step is shown,
\* and CSVUploadStep starts from loadExistingData when step 2 is shown
ShowStep(step, tpl, maps, url) ==
  /\ currentStep' = step
  /\ uploadStep' = IF step # 2 THEN NewUploadStep
                   ELSE IF currentStep = 2 THEN uploadStep
                   ELSE LoadExistingData(tpl, maps, url)

\* nextStep: if (currentStep < steps.length) setCurrentStep(currentStep + 1)
NextStepOf(step) == IF step < 6 THEN step + 1 ELSE step

\* prevStep: if (currentStep > 1) setCurrentStep(currentStep - 1)
PrevStepOf(step) == IF step > 1 THEN step - 1 ELSE step

\* generatePreview: it returns before setUnmappedPlaceholders when template or
\* csvData is null, which leaves the initial []
UnmappedPlaceholders(d) ==
  IF d.template.isNull \/ d.csvData.isNull
    THEN {}
    ELSE d.template.placeholders \ d.placeholderMappings

\* const canProceed = unmappedPlaceholders.length === 0 && campaignData.smtpConfig
CanProceed(d) == UnmappedPlaceholders(d) = {} /\ d.smtpConfig # Null

\* the placeholders of the stored template that have no entry in the builder's
\* placeholderMappings, which is the mapping the function is invoked with
SavedUnmapped(tpl, d) ==
  IF tpl.exists THEN tpl.placeholders \ d.placeholderMappings ELSE {}

\* saveTemplate: the template is stored with its placeholders, handed to the
\* builder and the next step is shown
SaveTemplate ==
  /\ currentStep = 1
  /\ \E ps \in SUBSET Tokens :
       /\ email_templates' = [exists |-> TRUE, placeholders |-> ps]
       /\ wizardData' = [wizardData EXCEPT
                           !.template = [isNull |-> FALSE, placeholders |-> ps]]
       /\ ShowStep(NextStepOf(currentStep), email_templates', placeholder_mappings,
                   csv_url)
  /\ UNCHANGED <<launchVars, renderVars, testVars, placeholder_mappings, csv_url,
                 invocations>>

\* handleFile: a CSV file of one row is parsed into csvData
HandleFile ==
  /\ currentStep = 2
  /\ uploadStep.csvData = 0
  /\ uploadStep' = [uploadStep EXCEPT !.csvData = 1]
  /\ UNCHANGED <<launchVars, renderVars, testVars, currentStep, wizardData,
                 email_templates, placeholder_mappings, csv_url, invocations>>

\* handleMappingChange: a header of the loaded CSV is chosen for a placeholder
\* of the list
HandleMappingChange ==
  /\ currentStep = 2
  /\ uploadStep.csvData > 0
  /\ \E p \in uploadStep.placeholders \ uploadStep.mappings :
       uploadStep' = [uploadStep EXCEPT !.mappings = @ \cup {p}]
  /\ UNCHANGED <<launchVars, renderVars, testVars, currentStep, wizardData,
                 email_templates, placeholder_mappings, csv_url, invocations>>

\* saveMappings: refused without CSV rows or with an unmapped placeholder of
\* the list; it stores the file and the mappings, hands them to the builder
\* and shows the next step
SaveMappings ==
  /\ currentStep = 2
  /\ uploadStep.csvData > 0
  /\ uploadStep.placeholders \subseteq uploadStep.mappings
  /\ csv_url' = "file"
  /\ placeholder_mappings' = uploadStep.mappings
  /\ wizardData' = [wizardData EXCEPT
                      !.csvData = [isNull |-> FALSE, rows |-> uploadStep.csvData],
                      !.placeholderMappings = uploadStep.mappings]
  /\ ShowStep(NextStepOf(currentStep), email_templates, placeholder_mappings', csv_url')
  /\ UNCHANGED <<launchVars, renderVars, testVars, email_templates, invocations>>

\* saveConfig: the configuration is handed to the builder and the next step
\* is shown
SaveConfig ==
  /\ currentStep = 3
  /\ wizardData' = [wizardData EXCEPT !.smtpConfig = "configured"]
  /\ ShowStep(NextStepOf(currentStep), email_templates, placeholder_mappings, csv_url)
  /\ UNCHANGED <<launchVars, renderVars, testVars, email_templates,
                 placeholder_mappings, csv_url, invocations>>

\* the Next button of PreviewStep: onClick={onNext} disabled={!canProceed}
PreviewNext ==
  /\ currentStep = 4
  /\ CanProceed(wizardData)
  /\ ShowStep(NextStepOf(currentStep), email_templates, placeholder_mappings, csv_url)
  /\ UNCHANGED <<launchVars, renderVars, testVars, wizardData, email_templates,
                 placeholder_mappings, csv_url, invocations>>

\* the Previous button of steps 2 to 6: onClick={onPrev}
PrevStep ==
  /\ currentStep \in 2..6
  /\ ShowStep(PrevStepOf(currentStep), email_templates, placeholder_mappings, csv_url)
  /\ UNCHANGED <<launchVars, renderVars, testVars, wizardData, email_templates,
                 placeholder_mappings, csv_url, invocations>>

\* a button of the progress bar: onClick={() => goToStep(step.id)}
GoToStep ==
  /\ \E step \in Steps \ {currentStep} :
       ShowStep(step, email_templates, placeholder_mappings, csv_url)
  /\ UNCHANGED <<launchVars, renderVars, testVars, wizardData, email_templates,
                 placeholder_mappings, csv_url, invocations>>

\* sendCampaign, once the status update went through: the function is invoked
\* with the builder's campaignData; onNext() when it returned no error
SendCampaign ==
  /\ currentStep = 5
  /\ Len(invocations) < MaxInvocations
  /\ invocations' = Append(invocations,
                           [unmapped |-> SavedUnmapped(email_templates, wizardData),
                            canProceed |-> CanProceed(wizardData)])
  /\ \E ok \in BOOLEAN :
       ShowStep(IF ok THEN NextStepOf(currentStep) ELSE currentStep,
                email_templates, placeholder_mappings, csv_url)
  /\ UNCHANGED <<launchVars, renderVars, testVars, wizardData, email_templates,
                 placeholder_mappings, csv_url>>

\* the builder page is opened again for the campaign: its state starts from
\* the useState values, the store keeps what was saved
OpenCampaign ==
  /\ currentStep # 1 \/ wizardData # NewWizardData
  /\ wizardData' = NewWizardData
  /\ ShowStep(1, email_templates, placeholder_mappings, csv_url)
  /\ UNCHANGED <<launchVars, renderVars, testVars, email_templates,
                 placeholder_mappings, csv_url, invocations>>

\* ---------------------------------------------------------- specification
CsvOfLength(n) == [i \in 1..n |-> i]

InitStore ==
  /\ campaign = NewCampaign
  /\ recipientsTable = <<>>

InitRuns ==
  /\ cpc = [r \in Runs |-> "idle"]
  /\ hpc = [r \in Runs |-> "idle"]
  /\ resp = [r \in Runs |-> 0]
  /\ dpc = [r \in Runs |-> "idle"]
  /\ recipients = [r \in Runs |-> <<>>]
  /\ idx = [r \in Runs |-> 0]
  /\ sentCount = [r \in Runs |-> 0]
  /\ failedCount = [r \in Runs |-> 0]
  /\ mailFails = [r \in Runs |-> {}]
  /\ events = [r \in Runs |-> <<>>]
  /\ preLaunch = [r \in Runs |-> [campaign |-> NewCampaign, rows |-> 0]]
  /\ finalApplied = [r \in Runs |-> FALSE]
  /\ storeError = [r \in Runs |-> FALSE]
  /\ writeError = [r \in Runs |-> FALSE]

\* the payloads a launch can carry: the wizard reaches step 5 with or without
\* an uploaded CSV and with or without an SMTP configuration (goToStep)
InitPayload ==
  /\ \E n \in 0..MaxRows, isNull \in BOOLEAN, smtp \in {Null, "configured"} :
       /\ isNull => n = 0
       /\ campaignData = [csvNull |-> isNull, csvData |-> CsvOfLength(n),
                          smtpConfig |-> smtp]
  /\ token \in {"none", "invalid", "valid"}

\* nothing is being rendered
InitRenderIdle ==
  /\ template = [subject |-> <<>>, body |-> <<>>]
  /\ placeholderMappings = <<>>
  /\ recipientData = <<>>
  /\ emailData = [subject |-> <<>>, html |-> <<>>]
  /\ preview = [subject |-> <<>>, body |-> <<>>]
  /\ rendered = {"email", "preview"}

\* no test send is under way
InitTestIdle ==
  /\ tpc = "off"
  /\ tresp = 0
  /\ tcalls = 0
  /\ tlookup = "none"
  /\ tmail = "none"
  /\ testRequest = [smtpConfig |-> Null]
  /\ preTest = [campaign |-> NewCampaign, rows |-> <<>>]

\* the wizard of a new campaign, at its first step
InitWizard ==
  /\ currentStep = 1
  /\ wizardData = NewWizardData
  /\ uploadStep = NewUploadStep
  /\ email_templates = [exists |-> FALSE, placeholders |-> {}]
  /\ placeholder_mappings = {}
  /\ csv_url = Null
  /\ invocations = <<>>

Init ==
  /\ InitWizard
  /\ InitStore
  /\ InitRuns
  /\ InitPayload
  /\ launchLimit = 1
  /\ InitRenderIdle
  /\ InitTestIdle

Next ==
  \E r \in Runs :
    \/ ClientUpdateStatus(r)
    \/ ClientInvoke(r)
    \/ ClientReturn(r)
    \/ HandlerAuth(r)
    \/ HandlerInsert(r)
    \/ HandlerUpdate(r)
    \/ HandlerStart(r)
    \/ InvokeMail(r)
    \/ MarkSent(r)
    \/ MarkFailed(r)
    \/ Delay(r)
    \/ ProgressWrite(r)
    \/ ProgressSkip(r)
    \/ FinalWrite(r)
    \/ Terminate(r)

\* a campaign that is launched once
Spec == Init /\ [][Next]_vars

\* one statement of sendEmailsInBackground
DispatcherStep(r) ==
  \/ InvokeMail(r)
  \/ MarkSent(r)
  \/ MarkFailed(r)
  \/ Delay(r)
  \/ ProgressWrite(r)
  \/ ProgressSkip(r)
  \/ FinalWrite(r)

NextLive ==
  \E r \in Runs :
    \/ ClientUpdateStatus(r)
    \/ ClientInvoke(r)
    \/ ClientReturn(r)
    \/ HandlerAuth(r)
    \/ HandlerInsert(r)
    \/ HandlerUpdate(r)
    \/ HandlerStart(r)
    \/ InvokeMail(r)
    \/ MarkSent(r)
    \/ MarkFailed(r)
    \/ Delay(r)
    \/ ProgressWrite(r)
    \/ ProgressSkip(r)
    \/ FinalWrite(r)

\* a launch whose worker is kept alive (EdgeRuntime.waitUntil) and whose awaited
\* calls all return: the async function goes on with its next statement
SpecLive == Init /\ [][NextLive]_vars /\ \A r \in Runs : WF_vars(DispatcherStep(r))

\* the launch button is confirmed again after the first launch returned (step 5
\* stays reachable through goToStep); short lists, so no progress update is due
RelaunchRows == 2
RelaunchCount == 2

\* between two launches the user goes back to step 2 and saves another CSV file:
\* saveMappings refuses an empty one, then onDataChange({csvData, ..})
ReuploadCsv(r) ==
  /\ r <= launchLimit
  /\ cpc[r] = "idle"
  /\ IF r = 1 THEN FALSE ELSE cpc[r - 1] = "done"
  /\ \E n \in 1..RelaunchRows :
       /\ n # Len(campaignData.csvData)
       /\ campaignData' = [campaignData EXCEPT !.csvNull = FALSE,
                                               !.csvData = [i \in 1..n |-> i]]
  /\ UNCHANGED <<wizardVars, renderVars, testVars, writeError,
                 campaign, recipientsTable, token, launchLimit, cpc, hpc, resp,
                 dpc, recipients, idx, sentCount, failedCount, mailFails, events,
                 preLaunch, finalApplied, storeError>>

InitRelaunch ==
  /\ InitWizard
  /\ InitStore
  /\ InitRuns
  /\ \E n \in 0..RelaunchRows, isNull \in BOOLEAN, smtp \in {Null, "configured"} :
       /\ isNull => n = 0
       /\ campaignData = [csvNull |-> isNull, csvData |-> CsvOfLength(n),
                          smtpConfig |-> smtp]
  /\ token \in {"none", "invalid", "valid"}
  /\ launchLimit = RelaunchCount
  /\ InitRenderIdle
  /\ InitTestIdle

NextRelaunch ==
  \E r \in Runs :
    \/ ClientUpdateStatus(r)
    \/ ClientInvoke(r)
    \/ ClientReturn(r)
    \/ HandlerAuth(r)
    \/ HandlerInsert(r)
    \/ HandlerUpdate(r)
    \/ HandlerStart(r)
    \/ InvokeMail(r)
    \/ MarkSent(r)
    \/ MarkFailed(r)
    \/ Delay(r)
    \/ ProgressSkip(r)
    \/ FinalWrite(r)
    \/ Terminate(r)
    \/ ReuploadCsv(r)

\* a campaign that is launched up to twice
SpecRelaunch == InitRelaunch /\ [][NextRelaunch]_vars

\* the campaign a test email is sent for: in any status, with or without rows
StoredCampaigns ==
  [status : {"draft", "active", "completed", "paused"},
   total_recipients : {0, 1}, sent_count : {0, 1}, failed_count : {0},
   completed_at : {Null, "timestamp"}]

StoredRows ==
  {<<>>} \cup {<<[id |-> 1, launch |-> 1, email |-> 1, status |-> st]>> :
                 st \in {"pending", "sent", "failed"}}

InitTestSend ==
  /\ InitWizard
  /\ campaign \in StoredCampaigns
  /\ recipientsTable \in StoredRows
  /\ InitRuns
  /\ campaignData = [csvNull |-> TRUE, csvData |-> <<>>, smtpConfig |-> Null]
  /\ token = "none"
  /\ launchLimit = 0
  /\ InitRenderIdle
  /\ tpc = "idle"
  /\ tresp = 0
  /\ tcalls = 0
  /\ tlookup = "none"
  /\ tmail = "none"
  /\ testRequest = [smtpConfig |-> Null]
  /\ preTest = [campaign |-> campaign, rows |-> recipientsTable]

NextTestSend ==
  \/ TestRequest
  \/ TestLookup
  \/ TestBuild
  \/ TestSend

\* test emails requested from step 4, one request after the other
SpecTestSend == InitTestSend /\ [][NextTestSend]_vars

\* the mappings a launch can carry: entries for distinct placeholders, in any
\* insertion order
MappingEntries == [placeholder : Tokens, csvColumn : Columns]

MappingSet ==
  {<<>>} \cup {<<e>> : e \in MappingEntries}
         \cup {m \in {<<e, f>> : e \in MappingEntries, f \in MappingEntries} :
                 m[1].placeholder # m[2].placeholder}

\* the rows a CSV file can give: any of the columns, any of the values
DataSet == UNION {[cols -> Values] : cols \in SUBSET Columns}

InitRender ==
  /\ InitWizard
  /\ InitStore
  /\ InitRuns
  /\ campaignData = [csvNull |-> TRUE, csvData |-> <<>>, smtpConfig |-> Null]
  /\ token = "none"
  /\ launchLimit = 0
  /\ InitTestIdle
  /\ template \in [subject : TextsUpTo(MaxSegments), body : TextsUpTo(1)]
  /\ placeholderMappings \in MappingSet
  /\ recipientData \in DataSet
  /\ emailData = [subject |-> <<>>, html |-> <<>>]
  /\ preview = [subject |-> <<>>, body |-> <<>>]
  /\ rendered = {}

NextRender ==
  \/ RenderEmail
  \/ GeneratePreview

\* one template rendered for one recipient, by the dispatcher and by the preview
SpecRender == InitRender /\ [][NextRender]_vars

InitBuilder ==
  /\ InitWizard
  /\ InitStore
  /\ InitRuns
  /\ campaignData = [csvNull |-> TRUE, csvData |-> <<>>, smtpConfig |-> Null]
  /\ token = "none"
  /\ launchLimit = 0
  /\ InitRenderIdle
  /\ InitTestIdle

NextWizard ==
  \/ SaveTemplate
  \/ HandleFile
  \/ HandleMappingChange
  \/ SaveMappings
  \/ SaveConfig
  \/ PreviewNext
  \/ PrevStep
  \/ GoToStep
  \/ SendCampaign
  \/ OpenCampaign

\* the wizard of one campaign, from its first step
SpecWizard == InitBuilder /\ [][NextWizard]_vars


\* =================================================================== claims
Mails(r) == SelectSeq(events[r], LAMBDA e : e.type = "mail")
Marks(r) == SelectSeq(events[r], LAMBDA e : e.type = "recipient")
Checkpoints(r) == SelectSeq(events[r], LAMBDA e : e.type = "checkpoint")
Finals(r) == SelectSeq(events[r], LAMBDA e : e.type = "final")

\* the handler's campaign update of launch r has been applied
CampaignUpdated(r) == hpc[r] = "start" \/ resp[r] = 200

PersistedProcessed == campaign.sent_count + campaign.failed_count

\* C1: for a campaign launched once, from the handler's campaign update to the
\* end of sendEmailsInBackground the persisted sent_count + failed_count is at
\* most the persisted total_recipients, and once the store has applied the
\* dispatcher's final write the two are equal.
CounterInvariant ==
  \A r \in Runs :
    CampaignUpdated(r) =>
      /\ PersistedProcessed <= campaign.total_recipients
      /\ finalApplied[r] => PersistedProcessed = campaign.total_recipients

CounterInvariantWitness ==
  /\ finalApplied[1]
  /\ campaign.total_recipients > CheckpointEvery
  /\ campaign.sent_count > 0
  /\ campaign.failed_count > 0

\* C2: the final write carries status completed if sent + failed equals the
\* number of recipients and paused otherwise, never another status, and it is
\* completed also when every send failed.
FinalStatusRule ==
  \A r \in Runs :
    dpc[r] = "done" =>
      /\ Len(Finals(r)) = 1
      /\ Finals(r)[1] = events[r][Len(events[r])]
      /\ Finals(r)[1].status \in {"completed", "paused"}
      /\ Finals(r)[1].status = "completed"
           <=> Finals(r)[1].sent + Finals(r)[1].failed = Len(recipients[r])
      /\ Len(Mails(r)) = Len(recipients[r])
           /\ Finals(r)[1].sent + Finals(r)[1].failed = Len(recipients[r])
           => Finals(r)[1].status = "completed"
      /\ finalApplied[r] => campaign.status = Finals(r)[1].status

FinalStatusRuleWitness ==
  /\ dpc[1] = "done"
  /\ finalApplied[1]
  /\ Len(recipients[1]) >= 2
  /\ sentCount[1] = 0
  /\ failedCount[1] = Len(recipients[1])
  /\ campaign.status = "completed"

\* C3: a failed send at position k does not stop the run and does not change
\* the outcome of any other position: the status recorded for position j is
\* failed exactly if the mail sender failed for j, every position is attempted,
\* and the final counters are those of the failure pattern.
FailureIsolation ==
  \A r \in Runs :
    /\ \A j \in 1..Len(Marks(r)) :
         /\ Marks(r)[j].k = j
         /\ Marks(r)[j].status = IF j \in mailFails[r] THEN "failed" ELSE "sent"
    /\ dpc[r] = "done" =>
         /\ Len(Mails(r)) = Len(recipients[r])
         /\ Len(Marks(r)) = Len(recipients[r])
         /\ failedCount[r] = Cardinality(mailFails[r])
         /\ sentCount[r] = Len(recipients[r]) - Cardinality(mailFails[r])
         /\ Finals(r)[1].status = "completed"

FailureIsolationWitness ==
  /\ dpc[1] = "done"
  /\ finalApplied[1]
  /\ Len(recipients[1]) = 3
  /\ mailFails[1] = {2}
  /\ campaign.sent_count = 2
  /\ campaign.failed_count = 1
  /\ campaign.status = "completed"

\* C4: the Nth mail-sender call of a run is for the Nth submitted row, and the
\* call for row N+1 is not issued before the outcome of row N was recorded.
InputOrder ==
  \A r \in Runs :
    /\ \A j \in 1..Len(Mails(r)) :
         /\ Mails(r)[j].k = j
         /\ Mails(r)[j].to = campaignData.csvData[j]
    /\ Len(Mails(r)) - Len(Marks(r)) \in {0, 1}
    /\ \A p \in 1..Len(events[r]) :
         events[r][p].type = "mail" /\ events[r][p].k > 1 =>
           \E q \in 1..(p - 1) :
             events[r][q].type = "recipient" /\ events[r][q].k = events[r][p].k - 1

InputOrderWitness ==
  /\ Len(Mails(1)) > CheckpointEvery
  /\ Cardinality(mailFails[1]) = 1
  /\ Len(Marks(1)) = Len(Mails(1)) - 1


\* C5: the progress update is written exactly after the 10th, 20th, ...
\* completed attempt, successes and failures counted together, and the run ends
\* with one final write; 25 rows that all succeed give progress updates after
\* attempts 10 and 20 only and a final write completed, sent 25, failed 0.
CheckpointSchedule ==
  \A r \in Runs :
    dpc[r] # "idle" =>
      /\ Len(Checkpoints(r)) = (idx[r] - 1) \div CheckpointEvery
      /\ \A j \in 1..Len(Checkpoints(r)) :
           /\ Checkpoints(r)[j].k = j * CheckpointEvery
           /\ Checkpoints(r)[j].sent + Checkpoints(r)[j].failed = j * CheckpointEvery
           /\ Checkpoints(r)[j].failed =
                Cardinality(mailFails[r] \cap (1..(j * CheckpointEvery)))
      /\ Len(Finals(r)) = IF dpc[r] = "done" THEN 1 ELSE 0
      /\ dpc[r] = "done" =>
           /\ events[r][Len(events[r])].type = "final"
           /\ Finals(r)[1].sent = sentCount[r]
           /\ Finals(r)[1].failed = failedCount[r]
      /\ dpc[r] = "done" /\ Len(recipients[r]) = 25 /\ mailFails[r] = {} =>
           /\ [j \in 1..Len(Checkpoints(r)) |-> Checkpoints(r)[j].k] = <<10, 20>>
           /\ Finals(r)[1].status = "completed"
           /\ Finals(r)[1].sent = 25
           /\ Finals(r)[1].failed = 0

CheckpointScheduleWitness ==
  /\ dpc[1] = "done"
  /\ finalApplied[1]
  /\ Len(recipients[1]) = 25
  /\ mailFails[1] = {}
  /\ Len(Checkpoints(1)) = 2
  /\ campaign = [status |-> "completed", total_recipients |-> 25, sent_count |-> 25,
                 failed_count |-> 0, completed_at |-> "timestamp"]

\* C6 (as claimed): a run that is terminated before it attempted every recipient
\* leaves the campaign with status paused.
InterruptedRunIsPaused ==
  \A r \in Runs :
    dpc[r] = "terminated" /\ Len(Marks(r)) < Len(recipients[r]) =>
      campaign.status = "paused"

RowsOfLaunch(r) == SelectSeq(recipientsTable, LAMBDA row : row.launch = r)

\* launch r has a valid token and a recipient list, and the store performed
\* every write of the handler
OtherwiseValid(r) ==
  token = "valid" /\ ~campaignData.csvNull /\ ~storeError[r]

\* C7 (as claimed): a launch without sender configuration is rejected before any
\* recipient is processed: error response, no Recipient row, no mail-sender
\* call, campaign status as before the launch action.
MissingSenderConfigRejected ==
  \A r \in Runs :
    campaignData.smtpConfig = Null /\ OtherwiseValid(r) =>
      /\ RowsOfLaunch(r) = <<>>
      /\ Mails(r) = <<>>
      /\ hpc[r] = "returned" =>
           /\ resp[r] = 500
           /\ campaign.status = preLaunch[r].campaign.status

\* C8 (as claimed): a launch with zero recipients is rejected: the handler
\* returns an error, no Recipient row is created and no field of the Campaign
\* record changes.
ZeroRecipientsRejected ==
  \A r \in Runs :
    Len(campaignData.csvData) = 0 /\ OtherwiseValid(r) /\ hpc[r] = "returned" =>
      /\ resp[r] = 500
      /\ RowsOfLaunch(r) = <<>>
      /\ campaign = preLaunch[r].campaign

\* C9 (as claimed): a launch rejected for a missing or invalid token or for a
\* failed store write of the handler leaves no partial state: no Recipient row
\* of the launch, Campaign record as before the launch action.
RejectedLaunchLeavesNoState ==
  \A r \in Runs :
    (token # "valid" \/ storeError[r]) /\ hpc[r] = "returned" =>
      /\ resp[r] = 500
      /\ RowsOfLaunch(r) = <<>>
      /\ campaign = preLaunch[r].campaign

\* the handler of launch r takes the step that starts sendEmailsInBackground
DispatcherStarts(r) == dpc[r] = "idle" /\ dpc'[r] # "idle"

Contains(s, p) == \E i \in 1..Len(s) : MatchAt(s, i, p)

\* every occurrence of p in s replaced by the characters v, taken as they are
RECURSIVE LiteralFrom(_, _, _, _)
LiteralFrom(s, i, p, v) ==
  IF i > Len(s) THEN <<>>
  ELSE IF MatchAt(s, i, p) THEN v \o LiteralFrom(s, i + Len(p), p, v)
  ELSE <<s[i]>> \o LiteralFrom(s, i + 1, p, v)

\* a character no text, token or value contains
Mark == <<"@">>

MappingList == {placeholderMappings[k] : k \in 1..Len(placeholderMappings)}
WithoutEntry(e) == SelectSeq(placeholderMappings, LAMBDA f : f # e)
IsMapped(tok) == \E e \in MappingList : e.placeholder = tok

\* the dispatcher's rendering of text when the occurrences of token tok are set
\* aside first and put back as the characters v afterwards
DispatcherAround(text, tok, mappings, v) ==
  LiteralFrom(Personalize(LiteralFrom(text, 1, tok, Mark), mappings, recipientData),
              1, Mark, v)

\* the same for the preview
PreviewAround(text, tok, v) ==
  LiteralFrom(PreviewText(LiteralFrom(text, 1, tok, Mark),
                          Placeholders(template.subject, template.body),
                          placeholderMappings, recipientData),
              1, Mark, v)

\* C11: every placeholder that has a mapping entry and a non-empty mapped value
\* has each of its occurrences in subject and body replaced by that value (here
\* for rows whose mapped values hold no token of a mapped placeholder): the
\* email is the template with exactly the value's characters at those occurrences
MappedOccurrencesReplaced ==
  "email" \in rendered =>
    \A e \in MappingList :
      (/\ HasValue(recipientData, e.csvColumn)
       /\ \A f \in MappingList, g \in MappingList :
            ~Contains(ValueOr(recipientData, g.csvColumn), f.placeholder))
      => /\ emailData.subject =
              DispatcherAround(template.subject, e.placeholder, WithoutEntry(e),
                               recipientData[e.csvColumn])
         /\ emailData.html =
              DispatcherAround(template.body, e.placeholder, WithoutEntry(e),
                               recipientData[e.csvColumn])

\* C12: a placeholder mapped to a column whose value is empty or absent is left
\* in place: the subject and body handed to send-email still contain the token
EmptyValueKeepsToken ==
  "email" \in rendered =>
    \A e \in MappingList :
      ~HasValue(recipientData, e.csvColumn)
      => /\ Contains(template.subject, e.placeholder)
              => Contains(emailData.subject, e.placeholder)
         /\ Contains(template.body, e.placeholder)
              => Contains(emailData.html, e.placeholder)

\* C13: every placeholder token of the template without a mapping entry stands
\* unchanged at each of its positions in the rendered subject and body, of the
\* email and of the preview, whatever else is substituted
UnmappedTokensPassThrough ==
  \A k \in 1..Len(Placeholders(template.subject, template.body)) :
    LET tok == Placeholders(template.subject, template.body)[k] IN
    ~IsMapped(tok) =>
      /\ "email" \in rendered =>
           /\ emailData.subject =
                DispatcherAround(template.subject, tok, placeholderMappings, tok)
           /\ emailData.html =
                DispatcherAround(template.body, tok, placeholderMappings, tok)
      /\ "preview" \in rendered =>
           /\ preview.subject = PreviewAround(template.subject, tok, tok)
           /\ preview.body = PreviewAround(template.body, tok, tok)

\* C14: a substituted value is not scanned for placeholders: when the value put
\* in for a placeholder contains the token of another mapped placeholder, the
\* email still contains that token, whatever the order of the mapping's entries
NoRecursiveSubstitution ==
  "email" \in rendered =>
    \A a \in MappingList, b \in MappingList :
      (/\ a # b
       /\ HasValue(recipientData, a.csvColumn)
       /\ Contains(recipientData[a.csvColumn], b.placeholder))
      => /\ Contains(template.subject, a.placeholder)
              => Contains(emailData.subject, b.placeholder)
         /\ Contains(template.body, a.placeholder)
              => Contains(emailData.html, b.placeholder)

\* ------------------------------------------------ dispatcher claims, second part
\* how many rows inserted by launch r have the given status
RowsWithStatus(r, status) ==
  Len(SelectSeq(RowsOfLaunch(r), LAMBDA row : row.status = status))

\* C15: a run that processed the whole list leaves none of its rows pending, and
\* the rows with status sent and failed are as many as the campaign's sent_count
\* and failed_count
RecipientRowsSettled ==
  \A r \in Runs :
    finalApplied[r] =>
      /\ RowsWithStatus(r, "pending") = 0
      /\ RowsWithStatus(r, "sent") = campaign.sent_count
      /\ RowsWithStatus(r, "failed") = campaign.failed_count

\* how often send-email was invoked for position k of run r
MailCalls(r, k) ==
  Cardinality({p \in 1..Len(events[r]) :
                 events[r][p].type = "mail" /\ events[r][p].k = k})

StatusLifecycle ==
  [][campaign'.status # campaign.status =>
       \/ campaign.status = "draft" /\ campaign'.status = "active"
       \/ campaign.status = "active" /\ campaign'.status \in {"completed", "paused"}]_vars

\* C18: when every call of the mail sender and of the store returns, a dispatcher
\* run that was started performs its final campaign write
DispatcherRunFinishes ==
  \A r \in Runs :
    (dpc[r] # "idle") ~> (dpc[r] = "done" /\ Len(Finals(r)) = 1)

DispatcherRunFinishesWitness ==
  /\ dpc[1] = "done"
  /\ Len(Finals(1)) = 1
  /\ Len(recipients[1]) = CheckpointEvery + 1
  /\ mailFails[1] = 1..Len(recipients[1])

\* the mail outcomes of the positions recorded so far
SentSoFar(r) == Cardinality({k \in 1..Len(Marks(r)) : k \notin mailFails[r]})
FailedSoFar(r) == Cardinality({k \in 1..Len(Marks(r)) : k \in mailFails[r]})

\* C19: a store write of the dispatcher that fails (a recipient outcome or a
\* progress update) does not stop the run: the counters stay those of the mail
\* outcomes, the remaining recipients are attempted, and the final write is
\* issued with those counters
WriteFailureTolerated ==
  \A r \in Runs :
    /\ [](writeError[r] =>
            /\ sentCount[r] = SentSoFar(r)
            /\ failedCount[r] = FailedSoFar(r)
            /\ dpc[r] = "done" =>
                 /\ Len(Mails(r)) = Len(recipients[r])
                 /\ Finals(r)[1].sent = sentCount[r]
                 /\ Finals(r)[1].failed = failedCount[r])
    /\ writeError[r] ~> (dpc[r] = "done" /\ Len(Finals(r)) = 1)

WriteFailureToleratedWitness ==
  /\ writeError[1]
  /\ dpc[1] = "done"
  /\ Len(recipients[1]) = 3
  /\ mailFails[1] = {3}
  /\ Finals(1)[1].sent = 2
  /\ Finals(1)[1].failed = 1

\* ------------------------------------------------------- test-send claims
\* the store is as it was when the request arrived
TestLeavesStore ==
  /\ campaign = preTest.campaign
  /\ recipientsTable = preTest.rows

\* the response is 200 exactly if the one send succeeded
TestAnswer ==
  tpc = "returned" => tresp = (IF tcalls = 1 /\ tmail = "ok" THEN 200 ELSE 500)

DelaysBetween(r, p, q) ==
  Cardinality({d \in (p + 1)..(q - 1) : events[r][d].type = "delay"})

\* C22: between any two consecutive calls of the mail sender in one run there is
\* exactly one delay step, whether the earlier attempt succeeded or failed
DelayBetweenCalls ==
  \A r \in Runs :
    \A p \in 1..Len(events[r]), q \in 1..Len(events[r]) :
      (/\ p < q
       /\ events[r][p].type = "mail"
       /\ events[r][q].type = "mail"
       /\ events[r][q].k = events[r][p].k + 1)
      => DelaysBetween(r, p, q) = 1

\* a statement of some dispatcher run executes, or its worker is ended
DispatcherActs == \E r \in Runs : dpc[r] # "idle" /\ dpc'[r] # dpc[r]

\* what identifies the stored rows: how many there are, and for each its id, the
\* launch that inserted it and its address
RowIdentities(table) ==
  [i \in 1..Len(table) |-> <<table[i].id, table[i].launch, table[i].email>>]

\* C23: the dispatcher changes nothing of the campaign record but status,
\* sent_count, failed_count and completed_at; it leaves total_recipients alone
\* and neither inserts nor deletes a recipient row
DispatcherFrame ==
  [][DispatcherActs =>
       /\ campaign'.total_recipients = campaign.total_recipients
       /\ RowIdentities(recipientsTable') = RowIdentities(recipientsTable)]_vars

DispatcherFrameWitness ==
  /\ finalApplied[1]
  /\ campaign.status = "completed"
  /\ campaign.total_recipients = 3
  /\ campaign.failed_count = 3
  /\ Len(recipientsTable) = 3

\* C24: the campaign's completed_at is set only if its status is completed, also
\* after the campaign was launched again
CompletedAtOnlyWhenCompleted ==
  campaign.completed_at # Null => campaign.status = "completed"

\* ------------------------------------------- rendering claims, second part
\* the distinct tokens of the subject, then those of the body that are new
TokensOfParts(subject, body) == Unique(MatchesFrom(subject, 1) \o MatchesFrom(body, 1))

\* C25: the placeholder list derived for a template holds exactly the distinct
\* tokens that occur in the subject or in the body, each once, in order of first
\* appearance with the subject first, and no token that occurs in neither (the
\* list as the preview has read it from the saved template)
PlaceholderListIsTokensOfParts ==
  "preview" \in rendered =>
    Placeholders(template.subject, template.body)
      = TokensOfParts(template.subject, template.body)

\* C28: for the same template, mapping and row, the subject and body the preview
\* shows are the subject and body the dispatcher hands to the mail sender
PreviewEqualsEmail ==
  rendered = {"email", "preview"} =>
    /\ preview.subject = emailData.subject
    /\ preview.body = emailData.html

\* ---------------------------------------------------------- relaunch claims
\* no launch request is being handled
HandlersAtRest == \A r \in Runs : hpc[r] \in {"idle", "returned"}

\* every dispatcher run that was started is over and its final write was applied
RunsFinished ==
  /\ \E r \in Runs : dpc[r] = "done"
  /\ \A r \in Runs : dpc[r] \in {"idle", "done"} /\ (dpc[r] = "done" => finalApplied[r])

\* C26: when the campaign is launched twice and the two runs interleave, the
\* persisted sent_count + failed_count never exceeds the persisted
\* total_recipients, and once both runs are over the persisted counters are the
\* counters of one complete run
InterleavedRunsKeepCounters ==
  /\ campaign.sent_count + campaign.failed_count <= campaign.total_recipients
  /\ (HandlersAtRest /\ RunsFinished) =>
       \E r \in Runs :
         /\ dpc[r] = "done"
         /\ campaign.sent_count = sentCount[r]
         /\ campaign.failed_count = failedCount[r]

\* C29: after any number of accepted launches (and no rejected one) the recipient
\* rows stored for the campaign are as many as its persisted total_recipients,
\* with no rows left from an earlier launch
RowsEqualTotalRecipients ==
  (/\ HandlersAtRest
   /\ \E r \in Runs : resp[r] = 200
   /\ \A r \in Runs : resp[r] \in {0, 200}) =>
    Len(recipientsTable) = campaign.total_recipients

LaunchedPlaceholdersMapped ==
  \A i \in 1..Len(invocations) : invocations[i].unmapped = {}

\* C27: the launch function is invoked at most once for the campaign, and only
\* from a state in which canProceed holds
LaunchedOnceFromCanProceed ==
  /\ Len(invocations) <= 1
  /\ \A i \in 1..Len(invocations) : invocations[i].canProceed

====
